---- MODULE Spec2Model ----
(***************************************************************************)
(* Model of mission_systems/shooter/firmware/shooter.cpp, built with       *)
(* USE_LINEAR_FEEDER defined: the Victor (ramped shooter) and Pololu       *)
(* (direction-pin feeder) speed controllers, the AutoController load/fire  *)
(* sequencer, the four service callbacks and the Arduino loop().           *)
(***************************************************************************)
EXTENDS Integers, Sequences, FiniteSets, TLC

VARIABLES
  ac,        \* AutoController: state, start_load_time, start_fire_time, loaded
  shooter,   \* Victor: reversed, goal, cur, pulse (last writeMicroseconds), wrote
  feeder,    \* Pololu: reversed, speed, inA, inB, pwm (pin levels)
  now,       \* millis(), an unsigned 32-bit value kept as <<high 16, low 16>>
  pc,        \* position inside loop(): "com", "shooter", "delay"
  op,        \* the operation that ran last
  cmd,       \* the last service request handled by Comms
  res,       \* the success field of each service's response object
  pending,   \* pin writes of a Pololu::_set call that are still to be made
  runs,      \* Victor::run calls since the last Victor set
  cur_at_set,\* Victor cur at the last Victor set
  elapsed    \* ms that really passed since the load() or fire() of the phase

vars ==
  <<ac, shooter, feeder, now, pc, op, cmd, res, pending, runs, cur_at_set,
    elapsed>>

----------------------------------------------------------------------------
(* Bounds of the model *)

\* the clock is followed up to this many ms after it reads 0
MaxClock == 1900
\* a start close to the wrap of millis(): WrapLead delays of 100 ms before it
WrapLead == 3
\* Victor::run is followed while cur stays within CurSpan of the centre
CurSpan == 800
\* Victor::run calls counted after one set in the ramp specification
MaxRuns == 6
\* the fair specification takes requests until the clock reads this many ms
LastRequest == 400

\* loop() durations: delay(100) plus the time the calls take
LoopTimes == {100, 400}
\* requests of the manual service: <<feeder, shooter>>
ManualInputs == {<<40, -20>>, <<-100, 10>>, <<0, 60>>}
\* percentages given to Victor set in the ramp specification
RampInputs == {v \in -100..100 : v % 5 = 0}
\* percentages given to Pololu set in the feeder specification
FeederInputs == -100..100

----------------------------------------------------------------------------
(* Arithmetic of the target: C division truncates, millis() is 32 bit *)

Abs(x) == IF x < 0 THEN -x ELSE x

TruncDiv(a, b) ==
  IF (a >= 0) = (b > 0) THEN Abs(a) \div Abs(b) ELSE -(Abs(a) \div Abs(b))

\* long map(long x, long in_min, long in_max, long out_min, long out_max)
map(x, in_min, in_max, out_min, out_max) ==
  TruncDiv((x - in_min) * (out_max - out_min), in_max - in_min) + out_min

W16 == 65536
Zero32 == <<0, 0>>

\* unsigned long + d, modulo 2^32
Add32(a, d) ==
  LET l == a[2] + d IN <<(a[1] + (l \div W16)) % W16, l % W16>>

\* unsigned long - unsigned long, modulo 2^32
Sub32(a, b) ==
  LET l == a[2] - b[2]
      borrow == IF l < 0 THEN 1 ELSE 0
  IN <<(a[1] - b[1] - borrow) % W16, l % W16>>

\* unsigned long < c for a constant c below 2^16
Less32(a, c) == a[1] = 0 /\ a[2] < c

LOW == 0
HIGH == 1

----------------------------------------------------------------------------
(* SpeedController / Victor *)

Victor_set(v, s) == [v EXCEPT !.goal = map(s, -100, 100, 1000, 2000)]

Victor_get(v) == map(v.cur, 1000, 2000, -100, 100)

Victor_init(v) == [v EXCEPT !.goal = 1500, !.cur = 1500, !.pulse = 1500]

\* Victor::run without the cur != goal test
Victor_run_unchecked(v) ==
  LET c == IF v.goal = 1500 THEN 1500
           ELSE IF v.goal < 1500 THEN v.cur - 100
           ELSE v.cur + 100
  IN [v EXCEPT !.cur = c, !.pulse = c, !.wrote = TRUE]

\* Victor::run without the jump to the centre
Victor_run_ramped_stop(v) ==
  IF v.cur # v.goal
  THEN LET c == IF v.goal <= 1500 THEN v.cur - 100 ELSE v.cur + 100
       IN [v EXCEPT !.cur = c, !.pulse = c, !.wrote = TRUE]
  ELSE [v EXCEPT !.wrote = FALSE]

Victor_run(v) ==
  IF v.cur # v.goal
  THEN LET c == IF v.goal = 1500 THEN 1500
                ELSE IF v.goal < 1500 THEN v.cur - 100
                ELSE v.cur + 100
       IN [v EXCEPT !.cur = c, !.pulse = c, !.wrote = TRUE]
  ELSE [v EXCEPT !.wrote = FALSE]

setReversed(d, r) == [d EXCEPT !.reversed = r]

ShooterSet(v, s) == IF v.reversed THEN Victor_set(v, -s) ELSE Victor_set(v, s)
\* get that forgets the inversion set applies
ShooterGet_no_flip(v) == Victor_get(v)

ShooterGet(v) == IF v.reversed THEN -Victor_get(v) ELSE Victor_get(v)
ShooterOn(v) == ShooterSet(v, 100)
ShooterOff(v) == ShooterSet(v, 0)

----------------------------------------------------------------------------
(* SpeedController / Pololu *)

\* Pololu::_set scaling a negative speed over [0,100]
PinWrites_same_scale(s) ==
  IF s = 0 THEN <<<<"inA", LOW>>, <<"inB", LOW>>, <<"pwm", 0>>>>
  ELSE IF s < 0
  THEN <<<<"inA", HIGH>>, <<"inB", LOW>>, <<"pwm", map(s, 0, 100, 0, 255)>>>>
  ELSE <<<<"inA", LOW>>, <<"inB", HIGH>>, <<"pwm", map(s, 0, 100, 0, 255)>>>>

\* the digitalWrite / analogWrite calls of Pololu::_set, in program order
PinWrites(s) ==
  IF s = 0 THEN <<<<"inA", LOW>>, <<"inB", LOW>>, <<"pwm", 0>>>>
  ELSE IF s < 0
  THEN <<<<"inA", HIGH>>, <<"inB", LOW>>, <<"pwm", map(s, 0, -100, 0, 255)>>>>
  ELSE <<<<"inA", LOW>>, <<"inB", HIGH>>, <<"pwm", map(s, 0, 100, 0, 255)>>>>

PinWrite(p, w) ==
  IF w[1] = "inA" THEN [p EXCEPT !.inA = w[2]]
  ELSE IF w[1] = "inB" THEN [p EXCEPT !.inB = w[2]]
  ELSE [p EXCEPT !.pwm = w[2]]

RECURSIVE ApplyWrites(_, _)
ApplyWrites(p, ws) ==
  IF ws = <<>> THEN p ELSE ApplyWrites(PinWrite(p, Head(ws)), Tail(ws))

Pololu_set(p, s) == ApplyWrites([p EXCEPT !.speed = s], PinWrites(s))

Pololu_get(p) == p.speed

FeederSet(p, s) == IF p.reversed THEN Pololu_set(p, -s) ELSE Pololu_set(p, s)
FeederGet(p) == IF p.reversed THEN -Pololu_get(p) ELSE Pololu_get(p)
FeederOn(p) == FeederSet(p, 100)
FeederOff(p) == FeederSet(p, 0)
FeederReverse(p) == FeederSet(p, -100)

----------------------------------------------------------------------------
(* AutoController (USE_LINEAR_FEEDER).  The operators take and return the  *)
(* three global objects as one record w = [ac, feeder, shooter].           *)

RETRACT_TIME == 1000
LOAD_TIME == 650
QUICKFIRE_TIME == 300

reset(a) ==
  [a EXCEPT !.state = 0, !.start_load_time = Zero32,
            !.start_fire_time = Zero32, !.loaded = FALSE]

\* runLoad leaving start_load_time set when the phase completes
runLoad_keeps_time(w, t) ==
  LET cur_time == Sub32(t, w.ac.start_load_time) IN
  IF Less32(cur_time, RETRACT_TIME)
  THEN [w EXCEPT !.feeder = FeederReverse(w.feeder)]
  ELSE IF Less32(cur_time, RETRACT_TIME + LOAD_TIME)
  THEN [w EXCEPT !.feeder = FeederOn(w.feeder)]
  ELSE [w EXCEPT !.feeder = FeederOff(w.feeder),
                 !.shooter = ShooterOn(w.shooter),
                 !.ac = [w.ac EXCEPT !.state = 0, !.loaded = TRUE]]

\* runLoad taking the elapsed time as 0 when millis() is below the start
runLoad_no_wrap(w, t) ==
  LET start == w.ac.start_load_time
      cur_time == IF t[1] < start[1] \/ (t[1] = start[1] /\ t[2] < start[2])
                  THEN Zero32 ELSE Sub32(t, start)
  IN
  IF Less32(cur_time, RETRACT_TIME)
  THEN [w EXCEPT !.feeder = FeederReverse(w.feeder)]
  ELSE IF Less32(cur_time, RETRACT_TIME + LOAD_TIME)
  THEN [w EXCEPT !.feeder = FeederOn(w.feeder)]
  ELSE [w EXCEPT !.feeder = FeederOff(w.feeder),
                 !.shooter = ShooterOn(w.shooter),
                 !.ac = [w.ac EXCEPT !.state = 0, !.loaded = TRUE,
                                     !.start_load_time = Zero32]]

\* runLoad ending the phase LOAD_TIME after load(), not after the retraction
runLoad_short_phase(w, t) ==
  LET cur_time == Sub32(t, w.ac.start_load_time) IN
  IF Less32(cur_time, LOAD_TIME)
  THEN [w EXCEPT !.feeder = FeederReverse(w.feeder)]
  ELSE IF Less32(cur_time, RETRACT_TIME)
  THEN [w EXCEPT !.feeder = FeederOn(w.feeder)]
  ELSE [w EXCEPT !.feeder = FeederOff(w.feeder),
                 !.shooter = ShooterOn(w.shooter),
                 !.ac = [w.ac EXCEPT !.state = 0, !.loaded = TRUE,
                                     !.start_load_time = Zero32]]

runLoad(w, t) ==
  LET cur_time == Sub32(t, w.ac.start_load_time) IN
  IF Less32(cur_time, RETRACT_TIME)
  THEN [w EXCEPT !.feeder = FeederReverse(w.feeder)]
  ELSE IF Less32(cur_time, RETRACT_TIME + LOAD_TIME)
  THEN [w EXCEPT !.feeder = FeederOn(w.feeder)]
  ELSE [w EXCEPT !.feeder = FeederOff(w.feeder),
                 !.shooter = ShooterOn(w.shooter),
                 !.ac = [w.ac EXCEPT !.state = 0, !.loaded = TRUE,
                                     !.start_load_time = Zero32]]

\* runFire driving the shooter only
runFire_shooter_only(w, t) ==
  LET cur_time == Sub32(t, w.ac.start_fire_time) IN
  IF Less32(cur_time, QUICKFIRE_TIME)
  THEN [w EXCEPT !.shooter = ShooterOn(w.shooter)]
  ELSE [w EXCEPT !.feeder = FeederOff(w.feeder),
                 !.shooter = ShooterOff(w.shooter),
                 !.ac = [w.ac EXCEPT !.start_fire_time = Zero32,
                                     !.loaded = FALSE, !.state = 0]]

runFire(w, t) ==
  LET cur_time == Sub32(t, w.ac.start_fire_time) IN
  IF Less32(cur_time, QUICKFIRE_TIME)
  THEN [w EXCEPT !.shooter = ShooterOn(w.shooter),
                 !.feeder = FeederOn(w.feeder)]
  ELSE [w EXCEPT !.feeder = FeederOff(w.feeder),
                 !.shooter = ShooterOff(w.shooter),
                 !.ac = [w.ac EXCEPT !.start_fire_time = Zero32,
                                     !.loaded = FALSE, !.state = 0]]

\* load that does not restart a Loading phase already under way
load_no_restart(w, t) ==
  IF w.ac.state = 1 THEN w
  ELSE [w EXCEPT !.ac = [w.ac EXCEPT !.start_load_time = t,
                                     !.loaded = FALSE, !.state = 1]]

\* load without loaded = false
load_keeps_loaded(w, t) ==
  [w EXCEPT !.ac = [w.ac EXCEPT !.start_load_time = t, !.state = 1]]

load(w, t) ==
  [w EXCEPT !.ac = [w.ac EXCEPT !.start_load_time = t, !.loaded = FALSE,
                                !.state = 1]]

\* fire that asks for a loaded ball
fire_needs_loaded(w, t) ==
  IF w.ac.loaded
  THEN [w EXCEPT !.ac = [w.ac EXCEPT !.start_fire_time = t, !.state = 2]]
  ELSE w

fire(w, t) ==
  [w EXCEPT !.ac = [w.ac EXCEPT !.start_fire_time = t, !.state = 2]]

\* cancel without shooter.off()
cancel_feeder_only(w) ==
  [w EXCEPT !.feeder = FeederOff(w.feeder), !.ac = reset(w.ac)]

cancel(w) ==
  [w EXCEPT !.feeder = FeederOff(w.feeder),
            !.shooter = ShooterOff(w.shooter),
            !.ac = reset(w.ac)]

\* run with case 0 falling through into case 1
run_fallthrough(w, t) ==
  CASE w.ac.state = 0 -> runLoad(w, t)
    [] w.ac.state = 1 -> runLoad(w, t)
    [] w.ac.state = 2 -> runFire(w, t)

\* run without the case for state 2
run_no_fire_case(w, t) ==
  CASE w.ac.state = 0 -> w
    [] w.ac.state = 1 -> runLoad(w, t)
    [] w.ac.state = 2 -> w

run(w, t) ==
  CASE w.ac.state = 0 -> w
    [] w.ac.state = 1 -> runLoad(w, t)
    [] w.ac.state = 2 -> runFire(w, t)

----------------------------------------------------------------------------
(* Comms callbacks: each returns the objects and the response's success *)

fireCallback(w, t, success) == [w |-> fire(w, t), success |-> TRUE]
loadCallback(w, t, success) == [w |-> load(w, t), success |-> TRUE]
cancelCallback(w, t, success) == [w |-> cancel(w), success |-> TRUE]

\* manualCallback without autoController.cancel()
manualCallback_no_cancel(w, f, s, success) ==
  [w |-> [w EXCEPT !.feeder = FeederSet(w.feeder, f),
                   !.shooter = ShooterSet(w.shooter, s)],
   success |-> success]

manualCallback(w, f, s, success) ==
  LET c == cancel(w) IN
  [w |-> [c EXCEPT !.feeder = FeederSet(c.feeder, f),
                   !.shooter = ShooterSet(c.shooter, s)],
   success |-> success]

----------------------------------------------------------------------------
(* The program: setup(), then loop() = com.run(); autoController.run();    *)
(* shooter.run(); delay(100)                                               *)

World == [ac |-> ac, feeder |-> feeder, shooter |-> shooter]

SetWorld(w) == ac' = w.ac /\ feeder' = w.feeder /\ shooter' = w.shooter

StartTimes == {Zero32, Sub32(Zero32, <<0, WrapLead * 100>>)}

setup ==
  /\ ac = reset([state |-> 0, start_load_time |-> Zero32,
                 start_fire_time |-> Zero32, loaded |-> FALSE])
  /\ shooter = Victor_init([reversed |-> TRUE, goal |-> 1500, cur |-> 1500,
                            pulse |-> 1500, wrote |-> FALSE])
  /\ feeder = [reversed |-> FALSE, speed |-> 0, inA |-> LOW, inB |-> LOW,
               pwm |-> 0]
  /\ res = [fire |-> FALSE, load |-> FALSE, cancel |-> FALSE,
            manual |-> FALSE]
  /\ pending = <<>>
  /\ runs = 0
  /\ cur_at_set = 1500
  /\ cmd = [name |-> "none", feeder |-> 0, shooter |-> 0, from |-> 0]
  /\ op = "setup"
  /\ elapsed = 0

Init ==
  /\ setup
  /\ now \in StartTimes
  /\ pc = "com"

Fire ==
  /\ pc = "com"
  /\ LET r == fireCallback(World, now, res.fire) IN
       SetWorld(r.w) /\ res' = [res EXCEPT !.fire = r.success]
  /\ cmd' = [name |-> "fire", feeder |-> 0, shooter |-> 0, from |-> ac.state]
  /\ op' = "fire"
  /\ elapsed' = 0
  /\ UNCHANGED <<now, pc, pending, runs, cur_at_set>>

Load ==
  /\ pc = "com"
  /\ LET r == loadCallback(World, now, res.load) IN
       SetWorld(r.w) /\ res' = [res EXCEPT !.load = r.success]
  /\ cmd' = [name |-> "load", feeder |-> 0, shooter |-> 0, from |-> ac.state]
  /\ op' = "load"
  /\ elapsed' = 0
  /\ UNCHANGED <<now, pc, pending, runs, cur_at_set>>

Cancel ==
  /\ pc = "com"
  /\ LET r == cancelCallback(World, now, res.cancel) IN
       SetWorld(r.w) /\ res' = [res EXCEPT !.cancel = r.success]
  /\ cmd' = [name |-> "cancel", feeder |-> 0, shooter |-> 0, from |-> ac.state]
  /\ op' = "cancel"
  /\ elapsed' = 0
  /\ UNCHANGED <<now, pc, pending, runs, cur_at_set>>

Manual ==
  /\ pc = "com"
  /\ \E m \in ManualInputs :
       /\ LET r == manualCallback(World, m[1], m[2], res.manual) IN
            SetWorld(r.w) /\ res' = [res EXCEPT !.manual = r.success]
       /\ cmd' = [name |-> "manual", feeder |-> m[1], shooter |-> m[2],
                 from |-> ac.state]
  /\ op' = "manual"
  /\ elapsed' = 0
  /\ UNCHANGED <<now, pc, pending, runs, cur_at_set>>

\* autoController.run(), after com.run() has handled the waiting requests
Tick ==
  /\ pc = "com"
  /\ SetWorld(run(World, now))
  /\ pc' = "shooter"
  /\ op' = "tick"
  /\ UNCHANGED <<now, cmd, res, pending, runs, cur_at_set, elapsed>>

InSpan(v) == Abs(v.cur - 1500) <= CurSpan

\* shooter.run()
Service ==
  /\ pc = "shooter"
  /\ InSpan(Victor_run(shooter))
  /\ shooter' = Victor_run(shooter)
  /\ pc' = "delay"
  /\ op' = "service"
  /\ UNCHANGED <<ac, feeder, now, cmd, res, pending, runs, cur_at_set,
               elapsed>>

\* delay(100): the clock has moved on by the time loop() is entered again
Delay ==
  /\ pc = "delay"
  /\ \E d \in LoopTimes :
       /\ now[1] = 0 => now[2] + d <= MaxClock
       /\ now' = Add32(now, d)
       /\ elapsed' = IF ac.state = 0 THEN 0 ELSE elapsed + d
  /\ pc' = "com"
  /\ op' = "delay"
  /\ UNCHANGED <<ac, feeder, shooter, cmd, res, pending, runs, cur_at_set>>

Next == Fire \/ Load \/ Cancel \/ Manual \/ Tick \/ Service \/ Delay

Spec == Init /\ [][Next]_vars

----------------------------------------------------------------------------
(* The program driven by fire, load and cancel requests only *)

SeqNext == Fire \/ Load \/ Cancel \/ Tick \/ Service \/ Delay

SeqSpec == Init /\ [][SeqNext]_vars

----------------------------------------------------------------------------
(* The program with loop() running for ever: requests arrive while the     *)
(* clock is within LastRequest, and the clock goes on past LastRequest for *)
(* as long as a phase is active.                                           *)

InWindow == now[1] # 0 \/ now[2] <= LastRequest

LiveFire == InWindow /\ Fire
LiveLoad == InWindow /\ Load
LiveCancel == InWindow /\ Cancel
LiveManual == InWindow /\ Manual

\* shooter.run(); a cur that has left the span is not followed any further
LiveService ==
  \/ Service
  \/ /\ pc = "shooter"
     /\ ~InSpan(Victor_run(shooter))
     /\ pc' = "delay"
     /\ op' = "service"
     /\ UNCHANGED <<ac, feeder, shooter, now, cmd, res, pending, runs,
                    cur_at_set, elapsed>>

LiveDelay ==
  /\ pc = "delay"
  /\ \E d \in LoopTimes :
       /\ ac.state # 0 \/ (now[1] = 0 => now[2] + d <= LastRequest)
       /\ now' = Add32(now, d)
       /\ elapsed' = IF ac.state = 0 THEN 0 ELSE elapsed + d
  /\ pc' = "com"
  /\ op' = "delay"
  /\ UNCHANGED <<ac, feeder, shooter, cmd, res, pending, runs, cur_at_set>>

LiveNext ==
  LiveFire \/ LiveLoad \/ LiveCancel \/ LiveManual \/ Tick \/ LiveService
    \/ LiveDelay

\* loop() is called again and again: each of its calls is eventually made
LiveSpec ==
  /\ Init
  /\ [][LiveNext]_vars
  /\ WF_vars(Tick)
  /\ WF_vars(LiveService)
  /\ WF_vars(LiveDelay)

----------------------------------------------------------------------------
(* The Victor on its own: set calls and run calls *)

RampInit ==
  /\ setup
  /\ now = Zero32
  /\ pc = "com"

RampSet ==
  /\ \E v \in RampInputs :
       /\ shooter' = ShooterSet(shooter, v)
       /\ cmd' = [name |-> "set", feeder |-> 0, shooter |-> v, from |-> 0]
  /\ runs' = 0
  /\ cur_at_set' = shooter.cur
  /\ op' = "set"
  /\ UNCHANGED <<ac, feeder, now, pc, res, pending, elapsed>>

RampRun ==
  /\ runs < MaxRuns
  /\ InSpan(Victor_run(shooter))
  /\ shooter' = Victor_run(shooter)
  /\ runs' = runs + 1
  /\ op' = "service"
  /\ UNCHANGED <<ac, feeder, now, pc, cmd, res, pending, cur_at_set,
               elapsed>>

RampNext == RampSet \/ RampRun

RampSpec == RampInit /\ [][RampNext]_vars

----------------------------------------------------------------------------
(* The Pololu on its own: set calls, one pin write at a time *)

FeederInit ==
  /\ setup
  /\ now = Zero32
  /\ pc = "com"

\* SpeedController::set and the first statement of Pololu::_set
PololuSet ==
  /\ pending = <<>>
  /\ \E x \in FeederInputs :
       LET s == IF feeder.reversed THEN -x ELSE x IN
       /\ feeder' = [feeder EXCEPT !.speed = s]
       /\ pending' = PinWrites(s)
       /\ cmd' = [name |-> "set", feeder |-> x, shooter |-> 0, from |-> 0]
  /\ op' = "set"
  /\ UNCHANGED <<ac, shooter, now, pc, res, runs, cur_at_set, elapsed>>

\* the next digitalWrite / analogWrite of the call
PololuWrite ==
  /\ pending # <<>>
  /\ feeder' = PinWrite(feeder, Head(pending))
  /\ pending' = Tail(pending)
  /\ op' = "write"
  /\ UNCHANGED <<ac, shooter, now, pc, cmd, res, runs, cur_at_set,
               elapsed>>

FeederNext == PololuSet \/ PololuWrite

FeederSpec == FeederInit /\ [][FeederNext]_vars

----------------------------------------------------------------------------
(* set and get of one speed controller, with either value of reversed *)

RoundTripInit ==
  /\ ac = reset([state |-> 0, start_load_time |-> Zero32,
                 start_fire_time |-> Zero32, loaded |-> FALSE])
  /\ \E r \in BOOLEAN :
       shooter = Victor_init(setReversed(
                   [reversed |-> FALSE, goal |-> 1500, cur |-> 1500,
                    pulse |-> 1500, wrote |-> FALSE], r))
  /\ \E r \in BOOLEAN :
       feeder = setReversed([reversed |-> FALSE, speed |-> 0, inA |-> LOW,
                             inB |-> LOW, pwm |-> 0], r)
  /\ res = [fire |-> FALSE, load |-> FALSE, cancel |-> FALSE,
            manual |-> FALSE]
  /\ pending = <<>>
  /\ runs = 0
  /\ cur_at_set = 1500
  /\ cmd = [name |-> "none", feeder |-> 0, shooter |-> 0, from |-> 0]
  /\ op = "setup"
  /\ elapsed = 0
  /\ now = Zero32
  /\ pc \in {"victor", "pololu"}

\* feeder.set(v)
RoundTripFeederSet ==
  /\ pc = "pololu"
  /\ \E v \in FeederInputs :
       /\ feeder' = FeederSet(feeder, v)
       /\ cmd' = [name |-> "fset", feeder |-> v, shooter |-> 0, from |-> 0]
  /\ op' = "set"
  /\ UNCHANGED <<ac, shooter, now, pc, res, pending, runs, cur_at_set,
                 elapsed>>

\* shooter.set(v)
RoundTripShooterSet ==
  /\ pc = "victor"
  /\ \E v \in FeederInputs :
       /\ shooter' = ShooterSet(shooter, v)
       /\ cmd' = [name |-> "sset", feeder |-> 0, shooter |-> v, from |-> 0]
  /\ op' = "set"
  /\ UNCHANGED <<ac, feeder, now, pc, res, pending, runs, cur_at_set,
                 elapsed>>

\* shooter.run()
RoundTripShooterRun ==
  /\ pc = "victor"
  /\ InSpan(Victor_run(shooter))
  /\ shooter' = Victor_run(shooter)
  /\ op' = "service"
  /\ UNCHANGED <<ac, feeder, now, pc, cmd, res, pending, runs, cur_at_set,
                 elapsed>>

RoundTripNext ==
  RoundTripFeederSet \/ RoundTripShooterSet \/ RoundTripShooterRun

RoundTripSpec == RoundTripInit /\ [][RoundTripNext]_vars

----------------------------------------------------------------------------
(* Properties *)

FeederStopped == feeder.inA = LOW /\ feeder.inB = LOW /\ feeder.pwm = 0
FeederForward == feeder.inA = LOW /\ feeder.inB = HIGH
FeederBackward == feeder.inA = HIGH /\ feeder.inB = LOW

\* C1 as claimed: right after cancel() the sequencer is Idle, loaded is
\* false, the feeder is stopped with PWM 0 and the shooter's output pulse
\* is 1500.
C1_CancelZeroesOutputs ==
  op = "cancel" =>
    /\ ac.state = 0 /\ ~ac.loaded
    /\ FeederStopped
    /\ shooter.pulse = 1500

\* C1 amended: right after cancel() the sequencer is Idle, loaded is false,
\* the feeder is stopped with PWM 0 and the shooter's goal is 1500; cancel()
\* itself writes no pulse, so cur and the output pulse still hold the ramp
\* position they had before the call.
C1_CancelZeroesCommands ==
  op = "cancel" =>
    /\ ac.state = 0 /\ ~ac.loaded
    /\ FeederStopped
    /\ shooter.goal = 1500
    /\ shooter.pulse = shooter.cur

C1_Witness ==
  op = "cancel" /\ shooter.goal = 1500 /\ shooter.pulse = 1000

\* C2 as claimed: loaded = true implies state = Idle.
C2_LoadedOnlyInIdle == ac.loaded => ac.state = 0

\* C2 amended: loaded = true implies state is Idle or Firing; loaded is never
\* true while the sequencer is in Loading (fire() leaves loaded as it is and
\* the Firing phase clears it on completion).
C2_LoadedNeverInLoading == ac.loaded => ac.state \in {0, 2}

C2_Witness == ac.loaded /\ ac.state = 2 /\ op = "tick"

\* C3 as claimed: whenever state = Idle both start timestamps are 0.
C3_IdleTimesCleared ==
  ac.state = 0 =>
    ac.start_load_time = Zero32 /\ ac.start_fire_time = Zero32

\* C3 amended: cancel() (also inside manual()) clears both start timestamps;
\* a phase that completes inside tick() clears its own start timestamp only,
\* so in Idle at least one of the two is 0 and the other can still hold the
\* start of a phase that was cut short by the other command.
C3_IdleOwnTimeCleared ==
  /\ [](ac.state = 0 =>
          ac.start_load_time = Zero32 \/ ac.start_fire_time = Zero32)
  /\ [][ /\ op' \in {"cancel", "manual"} =>
              ac'.start_load_time = Zero32 /\ ac'.start_fire_time = Zero32
         /\ (op' = "tick" /\ ac.state = 1 /\ ac'.state = 0) =>
              ac'.start_load_time = Zero32
         /\ (op' = "tick" /\ ac.state = 2 /\ ac'.state = 0) =>
              ac'.start_fire_time = Zero32 ]_vars

C3_Witness ==
  /\ op = "tick" /\ ac.state = 0 /\ ac.loaded
  /\ ac.start_load_time = Zero32 /\ ac.start_fire_time # Zero32

\* C4: each of fire, load, cancel and manual reports success = true in its
\* response.
C4_CommandsReportSuccess ==
  op \in {"fire", "load", "cancel", "manual"} => res[op] = TRUE

C6_TickIdleNoOp ==
  [][ /\ (op' = "tick" /\ ac.state = 0) =>
           (ac' = ac /\ feeder' = feeder /\ shooter' = shooter)
      /\ (op' = "tick" /\ cmd.name = "manual") =>
           /\ ac'.state = 0 /\ ~ac'.loaded
           /\ FeederGet(feeder') = cmd.feeder
           /\ shooter'.goal = 1500 - 5 * cmd.shooter ]_vars

C6_Witness ==
  /\ op = "tick" /\ cmd.name = "manual" /\ ac.state = 0
  /\ feeder.speed = 40 /\ shooter.goal = 1600

\* ceil(|goal - from| / 100)
RampCalls(from, goal) == (Abs(goal - from) + 99) \div 100

\* C7: after a set that leaves goal # 1500 with cur in [1000,2000], every
\* run() moves cur toward goal by at most 100 without passing it, and after
\* exactly ceil(|goal - cur| / 100) calls cur = goal.
C7_RampReachesGoal ==
  (/\ shooter.goal # 1500
   /\ cur_at_set \in 1000..2000
   /\ runs <= RampCalls(cur_at_set, shooter.goal)) =>
    /\ Abs(shooter.cur - cur_at_set) <= 100 * runs
    /\ \/ cur_at_set <= shooter.cur /\ shooter.cur <= shooter.goal
       \/ shooter.goal <= shooter.cur /\ shooter.cur <= cur_at_set
    /\ (runs = RampCalls(cur_at_set, shooter.goal) =>
          shooter.cur = shooter.goal)

\* C8: with goal = 1500 the next run() sets cur = 1500 and writes 1500
\* whatever the distance, and a run() with cur already at 1500 writes
\* nothing.
C8_FastStop ==
  [][ (op' = "service" /\ shooter.goal = 1500) =>
        /\ shooter'.cur = 1500
        /\ shooter'.pulse = 1500
        /\ shooter'.wrote = (shooter.cur # 1500) ]_vars

C8_Witness ==
  /\ op = "service" /\ shooter.goal = 1500 /\ runs = 1
  /\ shooter.cur = 1500 /\ shooter.wrote
  /\ Abs(cur_at_set - 1500) >= 300

\* round(n / d), halves rounded up
RoundDiv(n, d) == (2 * n + d) \div (2 * d)

\* C9 as claimed: after set(x), x = 0 gives both lines low and PWM 0, x > 0
\* the forward pattern and x < 0 the reverse pattern, with
\* PWM = round(|x| / 100 * 255).
C9_PwmRounded ==
  (op = "write" /\ pending = <<>>) =>
    LET x == cmd.feeder IN
    /\ (x = 0 => FeederStopped)
    /\ (x > 0 => FeederForward)
    /\ (x < 0 => FeederBackward)
    /\ feeder.pwm = RoundDiv(Abs(x) * 255, 100)

\* C9 amended: after set(x), x = 0 gives both lines low and PWM 0, x > 0 the
\* forward pattern and x < 0 the reverse pattern, with
\* PWM = floor(|x| * 255 / 100): the scaling truncates, it does not round.
C9_PwmTruncated ==
  (op = "write" /\ pending = <<>>) =>
    LET x == cmd.feeder IN
    /\ (x = 0 => FeederStopped)
    /\ (x > 0 => FeederForward)
    /\ (x < 0 => FeederBackward)
    /\ feeder.pwm = (Abs(x) * 255) \div 100

C9_Witness ==
  /\ op = "write" /\ pending = <<>> /\ cmd.feeder = -1
  /\ FeederBackward /\ feeder.pwm = 2

\* C10: at any time, also between the pin writes of one set call, the two
\* direction lines are never both high.
C10_NeverBothLinesHigh == ~(feeder.inA = HIGH /\ feeder.inB = HIGH)

\* C11: in Loading, a tick() less than 1000 ms after load() drives the feeder
\* in reverse, a tick() from 1000 ms to less than 1650 ms drives it forward,
\* and the first tick() at 1650 ms or later stops the feeder, commands the
\* shooter on, sets loaded and moves to Idle.
C11_LoadingSchedule ==
  [][ (op' = "tick" /\ ac.state = 1) =>
        /\ elapsed < 1000 =>
             /\ feeder'.speed = -100 /\ feeder'.inA = HIGH
             /\ feeder'.inB = LOW /\ feeder'.pwm = 255
             /\ ac' = ac /\ shooter' = shooter
        /\ (1000 <= elapsed /\ elapsed < 1650) =>
             /\ feeder'.speed = 100 /\ feeder'.inA = LOW
             /\ feeder'.inB = HIGH /\ feeder'.pwm = 255
             /\ ac' = ac /\ shooter' = shooter
        /\ elapsed >= 1650 =>
             /\ feeder'.speed = 0 /\ feeder'.inA = LOW
             /\ feeder'.inB = LOW /\ feeder'.pwm = 0
             /\ shooter'.goal = 1000
             /\ ac'.state = 0 /\ ac'.loaded ]_vars

C11_Witness ==
  /\ op = "tick" /\ cmd.name = "load" /\ elapsed = 1700
  /\ ac.state = 0 /\ ac.loaded
  /\ FeederStopped /\ shooter.goal = 1000

C13_LoadRestarts ==
  [][ /\ op' = "load" =>
           /\ ac'.state = 1 /\ ~ac'.loaded
           /\ ac'.start_load_time = now
      /\ (op' = "tick" /\ ac.state = 1 /\ cmd.name = "load"
            /\ cmd.from = 1) =>
           /\ (ac'.state = 0) = (elapsed >= 1650)
           /\ ac'.loaded = (elapsed >= 1650)
           /\ (feeder'.speed = -100) = (elapsed < 1000) ]_vars

C13_Witness ==
  /\ op = "tick" /\ cmd.name = "load" /\ cmd.from = 1
  /\ ac.state = 0 /\ ac.loaded /\ elapsed >= 1650
  /\ now[1] = 0 /\ now[2] >= 1750

\* C14: set(v) stores the physical value (-v if reversed, else v) and get()
\* gives v back: for the Pololu right after set(v), for the Victor whenever
\* cur = goal after set(v), the goal 1500 + 5 * (physical value) being mapped
\* back exactly.
C14_SetGetRoundTrip ==
  /\ cmd.name = "fset" =>
       /\ feeder.speed = (IF feeder.reversed THEN -cmd.feeder
                          ELSE cmd.feeder)
       /\ FeederGet(feeder) = cmd.feeder
  /\ cmd.name = "sset" =>
       /\ shooter.goal = 1500 + 5 * (IF shooter.reversed THEN -cmd.shooter
                                     ELSE cmd.shooter)
       /\ ShooterGet([shooter EXCEPT !.cur = shooter.goal]) = cmd.shooter
       /\ (shooter.cur = shooter.goal => ShooterGet(shooter) = cmd.shooter)

C14_Witness ==
  /\ cmd.name = "sset" /\ op = "service" /\ shooter.wrote
  /\ shooter.reversed /\ cmd.shooter = 60
  /\ shooter.cur = shooter.goal /\ shooter.cur = 1200

\* C15: at the end of a loop() iteration whose last request was cancel the
\* sequencer is Idle, the feeder is stopped with PWM 0 and the shooter's
\* written pulse is 1500.
C15_CancelWithinOneLoop ==
  (op = "service" /\ cmd.name = "cancel") =>
    /\ ac.state = 0
    /\ FeederStopped /\ feeder.speed = 0
    /\ shooter.pulse = 1500 /\ shooter.cur = 1500

C15_Witness ==
  /\ op = "service" /\ cmd.name = "cancel" /\ cmd.from = 2
  /\ shooter.wrote /\ shooter.pulse = 1500 /\ FeederStopped

\* C17: at the end of every loop() iteration, Firing has the feeder at +100
\* and the shooter commanded on, and Loading has the feeder at -100 before
\* 1000 ms and at +100 from 1000 ms, never a command left from before.
C17_PhaseOwnsFeeder ==
  op = "service" =>
    /\ ac.state = 2 =>
         /\ feeder.speed = 100 /\ FeederForward /\ feeder.pwm = 255
         /\ shooter.goal = 1000
    /\ ac.state = 1 =>
         /\ feeder.speed = (IF elapsed < 1000 THEN -100 ELSE 100)
         /\ feeder.pwm = 255
         /\ (IF elapsed < 1000 THEN FeederBackward ELSE FeederForward)

C17_Witness ==
  /\ op = "service" /\ ac.state = 1 /\ cmd.name = "load" /\ cmd.from = 2
  /\ elapsed = 0 /\ feeder.speed = -100 /\ shooter.goal = 1000

\* C18: the Victor's cur always lies in [1000, 2000].
C18_PulseInRange == 1000 <= shooter.cur /\ shooter.cur <= 2000

\* C19: with fire, load and cancel requests only, the shooter's goal is 1000
\* or 1500, cur is a multiple of 100 in [1000, 1500], and each run() with
\* cur # goal brings cur 100 closer to goal or onto it, so that within 5
\* calls cur = goal without passing it.
C19_SequencerRamp ==
  /\ [](/\ shooter.goal \in {1000, 1500}
        /\ shooter.cur \in {1000, 1100, 1200, 1300, 1400, 1500}
        /\ shooter.pulse = shooter.cur)
  /\ [][ (op' = "service" /\ shooter.cur # shooter.goal) =>
           \/ shooter'.cur = shooter.goal
           \/ /\ Abs(shooter'.cur - shooter.goal)
                   = Abs(shooter.cur - shooter.goal) - 100
              /\ shooter.goal < shooter'.cur ]_vars

C19_Witness ==
  /\ op = "service" /\ shooter.wrote
  /\ shooter.cur = 1000 /\ shooter.goal = 1000 /\ ac.loaded

Wrapped(start) == start[1] = W16 - 1 /\ now[1] = 0

\* C20: millis() - start, taken modulo 2^32, is the time that really passed
\* since load() or fire(), also when the clock wrapped in between, and a
\* tick() after the wrap ends Loading from 1650 ms, the retraction from
\* 1000 ms and Firing from 300 ms, not earlier and not later.
C20_WrapSafeTiming ==
  /\ [](/\ ac.state = 1 => Sub32(now, ac.start_load_time) = <<0, elapsed>>
        /\ ac.state = 2 => Sub32(now, ac.start_fire_time) = <<0, elapsed>>)
  /\ [][ /\ (op' = "tick" /\ ac.state = 1
               /\ Wrapped(ac.start_load_time)) =>
              /\ (ac'.state = 0) = (elapsed >= 1650)
              /\ (feeder'.speed = -100) = (elapsed < 1000)
         /\ (op' = "tick" /\ ac.state = 2
               /\ Wrapped(ac.start_fire_time)) =>
              (ac'.state = 0) = (elapsed >= 300) ]_vars

C20_Witness ==
  /\ op = "tick" /\ ac.state = 1 /\ Wrapped(ac.start_load_time)
  /\ elapsed >= 1000 /\ feeder.speed = 100

LoopMax == CHOOSE m \in LoopTimes : \A d \in LoopTimes : d <= m

\* C16: once requests stop and loop() keeps running, the sequencer reaches
\* Idle and stays there, Loading lasting less than 1650 ms plus one loop
\* period and Firing less than 300 ms plus one; the state changes only in a
\* request or in tick().
C16_PhaseCompletes ==
  /\ <>[](ac.state = 0)
  /\ [](/\ ac.state = 1 => elapsed < RETRACT_TIME + LOAD_TIME + LoopMax
        /\ ac.state = 2 => elapsed < QUICKFIRE_TIME + LoopMax)
  /\ [][ ac'.state # ac.state =>
           op' \in {"tick", "load", "fire", "cancel", "manual"} ]_vars

C16_Witness ==
  /\ op = "tick" /\ ac.state = 0 /\ ac.loaded /\ cmd.name = "load"
  /\ now[1] = 0 /\ now[2] > LastRequest /\ elapsed >= 1650

====
